---- MODULE Spec2Model ----
(***************************************************************************)
(* Model of the StampCard component (src/app/components/stampCard.tsx):    *)
(* the React state of one mounted card, the two effects (fetch on          *)
(* stampId, derive dispensers on stampData), the fetch completions that    *)
(* are in flight, and the click handlers reached by event bubbling.        *)
(***************************************************************************)
EXTENDS Integers, Sequences, FiniteSets, TLC

VARIABLES
    stampId,            \* the stampId prop
    stampData,          \* useState stampData (NullData = null)
    isDispenserOpen,    \* useState isDispenserOpen
    loading,            \* useState loading
    error,              \* useState error (NoError = null)
    isFlipped,          \* useState isFlipped
    dispensers,         \* useState dispensers
    selectedDispenser,  \* useState selectedDispenser (NullDispenser = null)
    pending,            \* getStampData promises not yet settled, per identifier
    toasts,             \* acknowledgements currently on screen
    fault,              \* what the most recent handler raised
    hostView            \* what the top-level browsing context shows

vars == <<stampId, stampData, isDispenserOpen, loading, error, isFlipped,
          dispensers, selectedDispenser, pending, toasts, fault, hostView>>

\* ------------------------------------------------------------------ bounds
MaxPending == 1   \* fetches in flight per identifier
MaxToasts == 2    \* acknowledgements on screen at once

\* ------------------------------------------------------------- input sets
StampIds == {"A", "B"}

NoError == "null"
FetchErrorText == "Failed to fetch stamp information."

\* A Dispenser: source address and btcrate (in units of 0.0001 BTC).
Dispenser(s, r) == [source |-> s, btcrate |-> r]
NullDispenser == Dispenser("null", 0)

\* The offer lists the data source answers with; rates 20, 15, 30 are the
\* 0.002, 0.0015, 0.003 BTC of the documented scenario.
OfferLists ==
    { <<>>,
      <<Dispenser("a", 20), Dispenser("b", 15), Dispenser("c", 30)>>,
      <<Dispenser("a", 20), Dispenser("b", 20)>>,
      <<Dispenser("b", 20), Dispenser("a", 20)>>,
      <<Dispenser("c", 30)>> }

\* stamp_mimetype as <<type, subtype>>: "text/html" is <<"text", "html">>.

\* stampData.stamp: the declared type (<<>> when the response carries none),
\* whether atob accepts stamp_base64, and stamp_url ("" when absent).
Stamp(m, ok, url) == [stamp_mimetype |-> m, stamp_base64ok |-> ok, stamp_url |-> url]

Stamps ==
    { Stamp(<<"text", "html">>, TRUE, ""),
      Stamp(<<"text", "html">>, FALSE, "url"),
      Stamp(<<"image", "png">>, TRUE, ""),
      Stamp(<<"application", "pdf">>, TRUE, "url"),
      Stamp(<<"application", "pdf">>, TRUE, ""),
      Stamp(<<>>, TRUE, "url") }

\* StampInfoResponse["data"]: hasDispensers = FALSE is a response without a
\* dispensers field.
StampData(id, st, has, l) ==
    [cpid |-> id, stamp_mimetype |-> st.stamp_mimetype,
     stamp_base64ok |-> st.stamp_base64ok, stamp_url |-> st.stamp_url,
     hasDispensers |-> has, dispensers |-> l]

NullData == StampData("null", Stamp(<<>>, TRUE, ""), FALSE, <<>>)

Records(id) ==
    { StampData(id, st, TRUE, l) : st \in Stamps, l \in OfferLists }
    \cup
    { StampData(id, Stamp(<<"image", "png">>, TRUE, ""), FALSE, <<>>) }

\* ------------------------------------------------- the dispenser ordering
\* Number.prototype.toString for a non-negative integer: its decimal digits.
RECURSIVE NumberToString(_)
NumberToString(n) == IF n < 10 THEN <<n>> ELSE NumberToString(n \div 10) \o <<n % 10>>

\* parseFloat of a digit string: the value of the digits read left to right.
RECURSIVE ParseDigits(_, _)
ParseDigits(s, acc) ==
    IF s = <<>> THEN acc ELSE ParseDigits(Tail(s), acc * 10 + Head(s))

ParseFloat(s) == ParseDigits(s, 0)

\* The comparator handed to Array.prototype.sort.
CompareRateDescending(a, b) == ParseFloat(NumberToString(b.btcrate)) - ParseFloat(NumberToString(a.btcrate))

CompareRate(a, b) == ParseFloat(NumberToString(a.btcrate)) - ParseFloat(NumberToString(b.btcrate))

\* Array.prototype.sort is stable: an element goes after every element that
\* does not compare greater than it.
RECURSIVE Insert(_, _)
Insert(s, x) ==
    IF s = <<>> THEN <<x>>
    ELSE IF CompareRate(Head(s), x) <= 0
         THEN <<Head(s)>> \o Insert(Tail(s), x)
         ELSE <<x>> \o s

RECURSIVE SortFrom(_, _)
SortFrom(done, rest) ==
    IF rest = <<>> THEN done ELSE SortFrom(Insert(done, Head(rest)), Tail(rest))

Sort(l) == SortFrom(<<>>, l)

\* The effect on [stampData]: the pair (dispensers, selectedDispenser) after it.
SortedDispensersKeepSelection(data, curDispensers, curSelected) ==
    IF data # NullData /\ data.hasDispensers /\ Len(data.dispensers) > 0
    THEN [dispensers |-> Sort(data.dispensers), selected |-> curSelected]
    ELSE [dispensers |-> curDispensers, selected |-> curSelected]

SortedDispensersEffect(data, curDispensers, curSelected) ==
    IF data # NullData /\ data.hasDispensers /\ Len(data.dispensers) > 0
    THEN [dispensers |-> Sort(data.dispensers),
          selected |-> Sort(data.dispensers)[1]]
    ELSE [dispensers |-> curDispensers, selected |-> curSelected]

\* ---------------------------------------------------------------- render
CardRenderedWhateverError == TRUE

\* The component returns only <Text>{error}</Text> once error is set.
CardRendered == error = NoError

\* renderStampContent: what the preview slot of the front face holds.
\* atob throws on a payload that is not base64; startsWith is called on the
\* declared type without a null check.
RenderStampContent ==
    IF loading THEN "skeleton"
    ELSE IF stampData # NullData /\ stampData.stamp_mimetype = <<"text", "html">>
         THEN IF stampData.stamp_base64ok THEN "iframe" ELSE "InvalidCharacterError"
    ELSE IF stampData # NullData /\ stampData.stamp_mimetype = <<>> THEN "TypeError"
    ELSE IF stampData # NullData /\ stampData.stamp_mimetype[1] = "image" THEN "image"
    ELSE "fallback"

\* src of the fallback <Image>.
FallbackSrc ==
    IF stampData # NullData /\ stampData.stamp_url # "" THEN stampData.stamp_url
    ELSE "AZlogo.webp"

\* An exception out of render: React unmounts the tree.
RenderThrows ==
    CardRendered /\ RenderStampContent \in {"InvalidCharacterError", "TypeError"}

\* The component is on screen and runs effects and handlers.
Mounted == ~RenderThrows /\ hostView = "card"

\* The front face footer (cpid text and Buy Art button).
FooterRendered == ~loading /\ stampData # NullData

\* The body of the back face.
BackFaceBody == IF Len(dispensers) = 0 THEN "noDispensers" ELSE "dispenserList"

\* The elements a click can have as its target.  The icon wrappers are the
\* HTML spans a Button puts around leftIcon; the icons are SVG elements.
Targets ==
    { "cardSurface", "cpidText",
      "buyButton", "buyButtonIconWrap", "buyButtonIcon",
      "menuButton", "menuItem", "copyIcon",
      "backButton", "backButtonIconWrap", "backButtonIcon",
      "modalClose" }

IsRendered(t) ==
    CASE t \in {"cpidText", "buyButton", "buyButtonIconWrap", "buyButtonIcon"} ->
            CardRendered /\ FooterRendered
      [] t \in {"menuButton", "menuItem"} ->
            CardRendered /\ Len(dispensers) # 0
      [] t = "copyIcon" ->
            CardRendered /\ Len(dispensers) # 0 /\ selectedDispenser # NullDispenser
      [] t = "modalClose" ->
            CardRendered /\ isDispenserOpen
      [] OTHER -> CardRendered

\* What the component puts on screen: the error text alone after the early
\* return, otherwise the card with its preview, back face and controls.
RenderedOutput ==
    IF ~Mounted THEN {}
    ELSE IF ~CardRendered THEN {"errorText"}
    ELSE {"cardHeader", RenderStampContent, BackFaceBody} \cup {t \in Targets : IsRendered(t)}

\* e.target instanceof HTMLElement
IsHTMLElement(t) == t \notin {"buyButtonIcon", "backButtonIcon", "copyIcon"}

\* e.target.tagName
TagName(t) ==
    CASE t \in {"buyButton", "backButton", "menuButton", "menuItem", "modalClose"} -> "BUTTON"
      [] t \in {"buyButtonIconWrap", "backButtonIconWrap"} -> "SPAN"
      [] t = "cpidText" -> "P"
      [] t \in {"buyButtonIcon", "backButtonIcon", "copyIcon"} -> "svg"
      [] OTHER -> "DIV"

\* The click bubbles to the flip-card Box; the modal is rendered beside it.
InsideCard(t) == t # "modalClose"

interactiveElements == {"BUTTON", "INPUT", "SELECT", "TEXTAREA", "A"}

\* handleClick: the value isFlipped has after the event, given the value the
\* render closed over and the value queued by handlers nearer the target.
HandleClick(t, rendered, queued) ==
    IF ~IsHTMLElement(t) THEN queued
    ELSE IF TagName(t) \in interactiveElements THEN queued
    ELSE ~rendered

\* onClick of the Buy Art and Back buttons, reached from the button and from
\* anything inside it.
ButtonOnClick(t, queued) ==
    CASE t \in {"buyButton", "buyButtonIconWrap", "buyButtonIcon"} -> TRUE
      [] t \in {"backButton", "backButtonIconWrap", "backButtonIcon"} -> FALSE
      [] OTHER -> queued

\* The text a copy affordance hands to handleCopyAddress.
CopiesAddress(t) == t \in {"cpidText", "copyIcon"}

\* onClose of the DispenserModal is the only writer of isDispenserOpen.
ModalOnClick(t, open) == IF t = "modalClose" THEN FALSE ELSE open

\* The outcomes of navigator.clipboard.writeText(address).
ClipboardOutcomes == {"written", "rejected", "unavailable"}

\* handleCopyAddress: a missing navigator.clipboard throws before toast() is
\* reached; a rejected write leaves an unhandled rejection behind the toast.
CopyFault(outcome) ==
    CASE outcome = "unavailable" -> "TypeError"
      [] outcome = "rejected" -> "unhandledRejection"
      [] OTHER -> "none"

CopyToasts(outcome, n) == IF outcome = "unavailable" THEN n ELSE n + 1

\* The tokens of the iframe's sandbox attribute.
SandboxTokens ==
    { "allow-scripts", "allow-same-origin", "allow-forms", "allow-popups",
      "allow-orientation-lock", "allow-pointer-lock", "allow-presentation",
      "allow-top-navigation", "allow-top-navigation-by-user-activation" }

\* The srcDoc frame is on screen (both faces stay in the document).
FrameRendered == CardRendered /\ RenderStampContent = "iframe"

\* Script in the frame may navigate the top-level browsing context.
FrameMayNavigateTop(gesture) ==
    /\ "allow-scripts" \in SandboxTokens
    /\ \/ "allow-top-navigation" \in SandboxTokens
       \/ gesture /\ "allow-top-navigation-by-user-activation" \in SandboxTokens

\* Script in the frame runs in the embedding page's origin: its document,
\* storage and cookies are within reach.
FrameSharesHostOrigin ==
    "allow-scripts" \in SandboxTokens /\ "allow-same-origin" \in SandboxTokens

\* ---------------------------------------------------------------- actions
Init ==
    /\ stampId \in StampIds
    /\ stampData = NullData
    /\ isDispenserOpen = FALSE
    /\ loading = TRUE
    /\ error = NoError
    /\ isFlipped = FALSE
    /\ dispensers = <<>>
    /\ selectedDispenser = NullDispenser
    /\ pending = [i \in StampIds |-> IF i = stampId THEN 1 ELSE 0]
    /\ toasts = 0
    /\ fault = "none"
    /\ hostView = "card"

\* The parent re-renders the card with another stampId: the effect on
\* [stampId] calls fetchData for it.
ChangeStampId(id) ==
    /\ Mounted
    /\ id # stampId
    /\ pending[id] < MaxPending
    /\ stampId' = id
    /\ pending' = [pending EXCEPT ![id] = @ + 1]
    /\ fault' = "none"
    /\ UNCHANGED <<stampData, isDispenserOpen, loading, error, isFlipped,
                   dispensers, selectedDispenser, toasts, hostView>>

\* getStampData(id) resolves: setStampData, setLoading(false), and the
\* effect on [stampData] that follows the re-render.
FetchSuccess(id, data) ==
    /\ Mounted
    /\ pending[id] > 0
    /\ pending' = [pending EXCEPT ![id] = @ - 1]
    /\ stampData' = data
    /\ loading' = FALSE
    /\ LET after == SortedDispensersEffect(data, dispensers, selectedDispenser)
       IN /\ dispensers' = after.dispensers
          /\ selectedDispenser' = after.selected
    /\ fault' = "none"
    /\ UNCHANGED <<stampId, isDispenserOpen, error, isFlipped, toasts, hostView>>

FetchFailureThenRetry(id) ==
    /\ Mounted
    /\ pending[id] > 0
    /\ error' = FetchErrorText
    /\ loading' = FALSE
    /\ fault' = "none"
    /\ UNCHANGED <<stampId, stampData, isDispenserOpen, isFlipped,
                   dispensers, selectedDispenser, toasts, hostView, pending>>

\* getStampData(id) rejects: setError, setLoading(false).
FetchFailure(id) ==
    /\ Mounted
    /\ pending[id] > 0
    /\ pending' = [pending EXCEPT ![id] = @ - 1]
    /\ error' = FetchErrorText
    /\ loading' = FALSE
    /\ fault' = "none"
    /\ UNCHANGED <<stampId, stampData, isDispenserOpen, isFlipped,
                   dispensers, selectedDispenser, toasts, hostView>>

\* dispensers.map((dispenser, index) => <MenuItem key={index} ...>)
MenuIndexes == IF dispensers = <<>> THEN {1} ELSE DOMAIN dispensers

\* A click whose target is t: the handlers on the path from t up to the
\* flip-card Box run in one batch.
Click(t, i, outcome) ==
    /\ Mounted
    /\ IsRendered(t)
    /\ CopiesAddress(t) => CopyToasts(outcome, toasts) <= MaxToasts
    /\ isFlipped' = IF InsideCard(t)
                    THEN HandleClick(t, isFlipped, ButtonOnClick(t, isFlipped))
                    ELSE isFlipped
    /\ i \in MenuIndexes
    /\ selectedDispenser' = IF t = "menuItem" THEN dispensers[i] ELSE selectedDispenser
    /\ isDispenserOpen' = ModalOnClick(t, isDispenserOpen)
    /\ toasts' = IF CopiesAddress(t) THEN CopyToasts(outcome, toasts) ELSE toasts
    /\ fault' = IF CopiesAddress(t) THEN CopyFault(outcome) ELSE "none"
    /\ UNCHANGED <<stampId, stampData, loading, error, dispensers, pending, hostView>>

\* A toast's duration (3000 ms) runs out.
DismissToast ==
    /\ Mounted
    /\ toasts > 0
    /\ toasts' = toasts - 1
    /\ fault' = "none"
    /\ UNCHANGED <<stampId, stampData, isDispenserOpen, loading, error, isFlipped,
                   dispensers, selectedDispenser, pending, hostView>>

\* Script of the stamp's markup asks to navigate the top-level browsing
\* context, with or without a user gesture inside the frame.
FrameScriptNavigatesTop(gesture) ==
    /\ Mounted
    /\ FrameRendered
    /\ FrameMayNavigateTop(gesture)
    /\ hostView' = IF gesture THEN "navigatedOnGesture" ELSE "navigatedByScript"
    /\ UNCHANGED <<stampId, stampData, isDispenserOpen, loading, error, isFlipped,
                   dispensers, selectedDispenser, pending, toasts, fault>>

Next ==
    \/ \E id \in StampIds : ChangeStampId(id)
    \/ \E id \in StampIds : \E data \in Records(id) : FetchSuccess(id, data)
    \/ \E id \in StampIds : FetchFailure(id)
    \/ \E t \in Targets :
           \E i \in IF t = "menuItem" THEN MenuIndexes ELSE {1} :
              \E outcome \in IF CopiesAddress(t) THEN ClipboardOutcomes ELSE {"written"} :
                 Click(t, i, outcome)
    \/ DismissToast
    \/ \E gesture \in BOOLEAN : FrameScriptNavigatesTop(gesture)

Spec == Init /\ [][Next]_vars

\* ----------------------------------------------------------------- claims
HasOffers(data) == data # NullData /\ data.hasDispensers /\ Len(data.dispensers) > 0

\* A fetch started for id settles (either way) while the card shows another id.
StaleCompletion(id) ==
    /\ id # stampId
    /\ \/ FetchFailure(id)
       \/ \E data \in Records(id) : FetchSuccess(id, data)

\* C1: a completion of the fetch started for identifier A that arrives after
\* stampId has become B # A changes none of stampData, loading, error,
\* dispensers, selectedDispenser.
C1_StaleCompletionChangesNothing ==
    [][\A id \in StampIds :
          (StaleCompletion(id) /\ Mounted') =>
              UNCHANGED <<stampData, loading, error, dispensers, selectedDispenser>>]_vars

\* C2: the record held for display is absent or is the record fetched for
\* the current stampId, from the moment stampId changes from I to J # I on.
C2_DisplayedRecordIsCurrent ==
    [][\A id \in StampIds :
          ChangeStampId(id) => (stampData' = NullData \/ stampData'.cpid = stampId')]_vars

\* out is in arranged ascending by btcrate, equal rates in their order in in.
IsStableAscendingPermutation(out, in) ==
    /\ Len(out) = Len(in)
    /\ \E p \in [DOMAIN out -> DOMAIN in] :
          /\ \A i, j \in DOMAIN out : i # j => p[i] # p[j]
          /\ \A i \in DOMAIN out : out[i] = in[p[i]]
          /\ \A i, j \in DOMAIN out :
                i < j => /\ out[i].btcrate <= out[j].btcrate
                         /\ out[i].btcrate = out[j].btcrate => p[i] < p[j]

ScenarioOffers == <<Dispenser("a", 20), Dispenser("b", 15), Dispenser("c", 30)>>
ScenarioOrdered == <<Dispenser("b", 15), Dispenser("a", 20), Dispenser("c", 30)>>

\* C3: while a record with a non-empty offer list is loaded, dispensers is a
\* permutation of the record's offers ascending by rate with equal rates in
\* fetch order; rates [0.002, 0.0015, 0.003] show as [0.0015, 0.002, 0.003].
C3_DispensersStableAscending ==
    HasOffers(stampData) =>
        /\ IsStableAscendingPermutation(dispensers, stampData.dispensers)
        /\ stampData.dispensers = ScenarioOffers => dispensers = ScenarioOrdered

C3_Witness ==
    /\ ~loading
    /\ stampData # NullData
    /\ stampData.dispensers = ScenarioOffers
    /\ dispensers = ScenarioOrdered

\* C4: selectedDispenser is empty exactly when dispensers is empty, and
\* otherwise is a member of dispensers.
C4_SelectionInList ==
    /\ selectedDispenser = NullDispenser <=> dispensers = <<>>
    /\ dispensers # <<>> => \E i \in DOMAIN dispensers : dispensers[i] = selectedDispenser

\* A user-chosen, non-default selection, kept across a change of identifier
\* and the load of that identifier's record.
C4_Witness ==
    /\ Len(dispensers) >= 2
    /\ selectedDispenser = dispensers[2]
    /\ selectedDispenser # dispensers[1]
    /\ stampData # NullData
    /\ stampData.cpid = stampId
    /\ ~HasOffers(stampData)

\* The selection a fresh record calls for: its cheapest offer, the earliest
\* fetched among equals, or none.
IsDefaultSelection(sel, data) ==
    IF HasOffers(data)
    THEN \E i \in DOMAIN data.dispensers :
            /\ sel = data.dispensers[i]
            /\ \A j \in DOMAIN data.dispensers :
                  /\ data.dispensers[i].btcrate <= data.dispensers[j].btcrate
                  /\ j < i => data.dispensers[i].btcrate < data.dispensers[j].btcrate
    ELSE sel = NullDispenser

\* C5: every record load resets the selection to the first of the new
\* record's ordered offers, or to empty when the new record has no offers.
C5_LoadResetsSelection ==
    [][\A id \in StampIds : \A data \in Records(id) :
          (id = stampId /\ FetchSuccess(id, data) /\ Mounted') =>
              IsDefaultSelection(selectedDispenser', data)]_vars

\* C6: when a record loads with zero offers, error is not set, loading is
\* false, the displayed offer list is empty and the "no dispensers" view shows.
C6_EmptyOffersState ==
    [][\A id \in StampIds : \A data \in Records(id) :
          (id = stampId /\ FetchSuccess(id, data) /\ ~HasOffers(data) /\ Mounted') =>
              /\ error' = NoError
              /\ loading' = FALSE
              /\ dispensers' = <<>>
              /\ BackFaceBody' = "noDispensers"]_vars

\* The children of the card that carry an interaction of their own.
InteractiveChildren ==
    {"cpidText", "copyIcon", "buyButton", "backButton", "menuButton", "menuItem"}

AnyClick(t) == \E i \in MenuIndexes : \E outcome \in ClipboardOutcomes : Click(t, i, outcome)

\* C7: a tap on the card surface toggles the orientation once; a tap on an
\* interactive child leaves the orientation to that child's own handler.
C7_TapRule ==
    [][/\ AnyClick("cardSurface") => isFlipped' = ~isFlipped
       /\ \A t \in InteractiveChildren :
             AnyClick(t) => isFlipped' = ButtonOnClick(t, isFlipped)]_vars

BuyTargets == {"buyButton", "buyButtonIconWrap", "buyButtonIcon"}
BackTargets == {"backButton", "backButtonIconWrap", "backButtonIcon"}

\* C8: after a buy action the orientation is Back and after a back action it
\* is Front, from any prior orientation and whatever part of the button the
\* click landed on.
C8_BuyAndBackForceOrientation ==
    [][/\ \A t \in BuyTargets : AnyClick(t) => isFlipped' = TRUE
       /\ \A t \in BackTargets : AnyClick(t) => isFlipped' = FALSE]_vars

\* C9: the view state starts as (Front, closed) and every change of the
\* identifier resets it to (Front, closed).
C9_IdentifierChangeResetsView ==
    [][\A id \in StampIds :
          ChangeStampId(id) => (isFlipped' = FALSE /\ isDispenserOpen' = FALSE)]_vars

\* C10: with a record loaded, in either orientation, some rendered control
\* opens the purchase modal.
C10_OpenPurchaseAvailable ==
    (Mounted /\ CardRendered /\ FooterRendered) =>
        \E t \in Targets : IsRendered(t) /\ ModalOnClick(t, FALSE) = TRUE

\* C11: while error is set the rendered output is the error indicator alone:
\* no preview of any record, no offer list, no selection detail, no controls.
C11_FailedShowsOnlyError ==
    error # NoError => RenderedOutput = {"errorText"}

\* Failed with an earlier record of another identifier, its offers and a
\* flipped card still in state.
C11_Witness ==
    /\ error # NoError
    /\ stampData # NullData
    /\ stampData.cpid # stampId
    /\ dispensers # <<>>
    /\ selectedDispenser # NullDispenser
    /\ isFlipped

\* C12: after a failure, once the identifier has changed and the fetch for
\* the current identifier succeeds, the controller is Loaded and not Failed.
C12_NewIdentifierRecovers ==
    [][\A id \in StampIds : \A data \in Records(id) :
          (id = stampId /\ FetchSuccess(id, data)) => error' = NoError]_vars

\* The strategy the decision table gives a declared content type.
ExpectedStrategy(m) ==
    IF m = <<"text", "html">> THEN "iframe"
    ELSE IF m # <<>> /\ m[1] = "image" THEN "image"
    ELSE "fallback"

RecordShown == CardRendered /\ ~loading /\ stampData # NullData

\* C13: for every loaded record the strategy is a total function of the
\* declared content type; an unrecognized or missing type takes the fallback.
C13_StrategyTotal ==
    (RecordShown /\ stampData.stamp_base64ok) =>
        RenderStampContent = ExpectedStrategy(stampData.stamp_mimetype)

\* C14: a text/html record whose payload is not valid base64 is rendered by
\* the fallback path and the component stays mounted in Loaded.
C14_DecodeFailureFallsBack ==
    (RecordShown /\ stampData.stamp_mimetype = <<"text", "html">>
                 /\ ~stampData.stamp_base64ok) =>
        (RenderStampContent = "fallback" /\ Mounted)

\* C15: markup runs in a context with no access to the host's origin, storage
\* or cookies, and the host view is never navigated without a user gesture.
C15_FrameIsolated ==
    /\ hostView # "navigatedByScript"
    /\ FrameRendered => ~FrameSharesHostOrigin

CopyTargets == {"cpidText", "copyIcon"}

\* C16: every copy invocation puts up exactly one more acknowledgement,
\* whatever the text and however close the invocations are.
C16_OneToastPerCopy ==
    [][\A t \in CopyTargets : AnyClick(t) => toasts' = toasts + 1]_vars

\* C17: a copy never fails for its caller: whatever the clipboard does, the
\* acknowledgement is emitted, nothing is raised out of the handler and the
\* controller's record, loading, error and selection are untouched.
C17_CopyAlwaysSucceeds ==
    [][\A t \in CopyTargets :
          AnyClick(t) =>
              /\ fault' = "none"
              /\ toasts' = toasts + 1
              /\ UNCHANGED <<stampData, loading, error, selectedDispenser>>]_vars

IsOfferOf(d, data) ==
    /\ data.hasDispensers
    /\ \E j \in DOMAIN data.dispensers : data.dispensers[j] = d

\* C18: once a record is loaded, the displayed offers and the selection come
\* from that record alone, also when it has an empty or missing offer list.
C18_OffersFromLoadedRecordOnly ==
    (Mounted /\ stampData # NullData) =>
        /\ \A i \in DOMAIN dispensers : IsOfferOf(dispensers[i], stampData)
        /\ selectedDispenser # NullDispenser => IsOfferOf(selectedDispenser, stampData)

\* C19: while the fetch for the current identifier is in flight the
\* controller is Loading and the preview is the skeleton.
C19_LoadingWhileFetching ==
    (Mounted /\ pending[stampId] > 0) =>
        (loading /\ error = NoError /\ RenderStampContent = "skeleton")

RECURSIVE SumPending(_, _)
SumPending(p, ids) ==
    IF ids = {} THEN 0
    ELSE LET id == CHOOSE x \in ids : TRUE IN p[id] + SumPending(p, ids \ {id})

InFlight(p) == SumPending(p, StampIds)

\* C20: one fetch is started by mount and one by each change of identifier,
\* and by nothing else: a failure starts no retry, and no user action starts
\* a fetch or writes stampData, loading or error.
C20_FetchOnlyOnIdentifierChange ==
    /\ InFlight(pending) = 1 /\ pending[stampId] = 1
    /\ [][/\ \A id \in StampIds :
                pending'[id] > pending[id] =>
                    (stampId # id /\ stampId' = id /\ InFlight(pending') = InFlight(pending) + 1)
          /\ stampId' # stampId => pending'[stampId'] = pending[stampId'] + 1
          /\ (stampData' # stampData \/ loading' # loading \/ error' # error) =>
                InFlight(pending') = InFlight(pending) - 1
          /\ (isFlipped' # isFlipped \/ toasts' # toasts \/ fault' # "none") =>
                UNCHANGED <<pending, stampData, loading, error>>]_vars

\* A failure that left no fetch behind, after the user tapped and copied.
C20_Witness ==
    /\ error # NoError
    /\ InFlight(pending) = 0
    /\ isFlipped
    /\ toasts > 0
    /\ stampData # NullData

====
